---------------------------- MODULE Spec2Model ----------------------------
(***************************************************************************)
(* Model of scraper.py: the SEC SRO rulemaking feed generator.             *)
(*                                                                         *)
(* Text is modelled as a sequence of one-character strings, so that the    *)
(* regular expressions of should_exclude and the date formats of           *)
(* generate_feed are computed character by character.                      *)
(***************************************************************************)
EXTENDS Integers, Sequences, FiniteSets, TLC

(***************************************************************************)
(* Bounds of the model.                                                    *)
(***************************************************************************)
\* rows of the listing table that one response carries, at most
MaxRows == 1
\* length of the raw list the pipeline specification starts from, at most
MaxLen == 3

(***************************************************************************)
(* Characters and strings.                                                 *)
(***************************************************************************)
UPPER == <<"A","B","C","D","E","F","G","H","I","J","K","L","M","N","O","P","Q","R","S","T","U","V","W","X","Y","Z">>
LOWER == <<"a","b","c","d","e","f","g","h","i","j","k","l","m","n","o","p","q","r","s","t","u","v","w","x","y","z">>
DIGITS == <<"0","1","2","3","4","5","6","7","8","9">>

Range(s) == {s[i] : i \in 1..Len(s)}

UpperSet == Range(UPPER)
LowerSet == Range(LOWER)
DigitSet == Range(DIGITS)

IndexOf(c, s) == CHOOSE i \in 1..Len(s) : s[i] = c

LowerOf == [c \in UpperSet |-> LOWER[IndexOf(c, UPPER)]]
UpperOf == [c \in LowerSet |-> UPPER[IndexOf(c, LOWER)]]
DigitOf == [c \in DigitSet |-> IndexOf(c, DIGITS) - 1]

\* str.lower() and str.upper() on one character
LowerChar(c) == IF c \in UpperSet THEN LowerOf[c] ELSE c
UpperChar(c) == IF c \in LowerSet THEN UpperOf[c] ELSE c

\* str.lower()
LowerStr(s) == [i \in 1..Len(s) |-> LowerChar(s[i])]

\* \w of the re module
WordChars == UpperSet \cup LowerSet \cup DigitSet \cup {"_"}
IsWordChar(c) == c \in WordChars
\* \s of the re module
SpaceChars == {" ", "\t", "\n", "\r"}
IsSpaceChar(c) == c \in SpaceChars

DigitValue(c) == DigitOf[c]

RECURSIVE IntToStr(_)
\* str(n) of a natural number
IntToStr(n) == IF n < 10 THEN <<DIGITS[n + 1]>>
               ELSE IntToStr(n \div 10) \o <<DIGITS[(n % 10) + 1]>>

\* s.startswith(p)
StartsWith(s, p) == Len(s) >= Len(p) /\ SubSeq(s, 1, Len(p)) = p

\* p occurs in s at position i
OccursAt(s, p, i) == i + Len(p) - 1 <= Len(s) /\ SubSeq(s, i, i + Len(p) - 1) = p

\* p in s
Contains(s, p) == \E i \in 1..(Len(s) + 1) : OccursAt(s, p, i)

RECURSIVE ReplaceFrom(_, _, _, _)
\* s[i:].replace(old, new), left to right, non-overlapping (old is not empty)
ReplaceFrom(s, old, new, i) ==
  IF i > Len(s) THEN << >>
  ELSE IF OccursAt(s, old, i) THEN new \o ReplaceFrom(s, old, new, i + Len(old))
  ELSE <<s[i]>> \o ReplaceFrom(s, old, new, i + 1)

\* s.replace(old, new)
Replace(s, old, new) == ReplaceFrom(s, old, new, 1)

RECURSIVE LStrip(_)
LStrip(s) == IF s # << >> /\ IsSpaceChar(s[1]) THEN LStrip(Tail(s)) ELSE s

RECURSIVE RStrip(_)
RStrip(s) == IF s # << >> /\ IsSpaceChar(s[Len(s)]) THEN RStrip(SubSeq(s, 1, Len(s) - 1)) ELSE s

\* s.strip()
Strip(s) == RStrip(LStrip(s))

\* s[:n]
Prefix(s, n) == SubSeq(s, 1, IF Len(s) < n THEN Len(s) ELSE n)

(***************************************************************************)
(* re.search(pattern, s, re.IGNORECASE) for the patterns of this program:  *)
(* a pattern is a sequence of atoms, each a literal character, "\\b" (a    *)
(* word boundary) or "\\s+" (one or more whitespace characters).           *)
(***************************************************************************)
AtBoundary(s, i) ==
  LET before == i > 1 /\ IsWordChar(s[i - 1])
      after == i <= Len(s) /\ IsWordChar(s[i])
  IN before # after

RECURSIVE MatchHere(_, _, _, _)
\* atoms k.. of pattern p match s from position i on
MatchHere(p, k, s, i) ==
  IF k > Len(p) THEN TRUE
  ELSE IF p[k] = "\\b" THEN AtBoundary(s, i) /\ MatchHere(p, k + 1, s, i)
  ELSE IF p[k] = "\\s+" THEN
    \E j \in (i + 1)..(Len(s) + 1) :
      /\ \A m \in i..(j - 1) : IsSpaceChar(s[m])
      /\ MatchHere(p, k + 1, s, j)
  ELSE /\ i <= Len(s)
       /\ LowerChar(s[i]) = LowerChar(p[k])
       /\ MatchHere(p, k + 1, s, i + 1)

re_search(p, s) == \E i \in 1..(Len(s) + 1) : MatchHere(p, 1, s, i)

(***************************************************************************)
(* Configuration.                                                          *)
(***************************************************************************)
SEC_BASE_URL == <<"h","t","t","p","s",":","/","/","w","w","w",".","s","e","c",".","g","o","v">>

SRO_SOURCES == << <<"n","a","t","i","o","n","a","l","-","s","e","c","u","r","i","t","i","e","s","-","e","x","c","h","a","n","g","e","s">>, <<"f","i","n","r","a">> >>

\* SRO_PAGES, in insertion order: source key -> listing URL
SRO_PAGES == [k \in 1..Len(SRO_SOURCES) |->
  [source |-> SRO_SOURCES[k],
   base_url |-> SEC_BASE_URL
                \o <<"/","r","u","l","e","s","-","r","e","g","u","l","a","t","i","o","n","s","/","s","e","l","f","-","r","e","g","u","l","a","t","o","r","y","-","o","r","g","a","n","i","z","a","t","i","o","n","-","r","u","l","e","m","a","k","i","n","g","/">>
                \o SRO_SOURCES[k]]]

EXCLUDE_TITLE_PATTERNS == <<
  <<"N","o","t","i","c","e"," ","o","f"," ","F","i","l","i","n","g"," ","a","n","d"," ","I","m","m","e","d","i","a","t","e"," ","E","f","f","e","c","t","i","v","e","n","e","s","s">>,
  <<"F","i","l","i","n","g"," ","a","n","d"," ","I","m","m","e","d","i","a","t","e"," ","E","f","f","e","c","t","i","v","e","n","e","s","s">> >>

WB == <<"\\b">>

CRYPTO_PATTERNS == <<
  WB \o <<"c","r","y","p","t","o">> \o WB,
  WB \o <<"c","r","y","p","t","o","c","u","r","r","e","n","c","y">> \o WB,
  WB \o <<"c","r","y","p","t","o","c","u","r","r","e","n","c","i","e","s">> \o WB,
  WB \o <<"b","i","t","c","o","i","n">> \o WB,
  WB \o <<"e","t","h","e","r">> \o WB,
  WB \o <<"e","t","h","e","r","e","u","m">> \o WB,
  WB \o <<"d","i","g","i","t","a","l">> \o <<"\\s+">> \o <<"a","s","s","e","t">>,
  WB \o <<"b","l","o","c","k","c","h","a","i","n">> \o WB,
  WB \o <<"s","t","a","b","l","e","c","o","i","n">> \o WB,
  WB \o <<"t","o","k","e","n">> \o WB,
  WB \o <<"B","T","C">> \o WB,
  WB \o <<"E","T","H">> \o WB,
  WB \o <<"X","R","P">> \o WB,
  WB \o <<"S","O","L">> \o WB,
  WB \o <<"A","D","A">> \o WB,
  WB \o <<"D","O","G","E">> \o WB >>

REQUEST_DELAY == 2
RATE_LIMIT_COOLDOWN == 10
max_pages == 3
TITLE_EXCERPT == 200
MIN_CELLS == 5
ID_LENGTH == 12

RATE_LIMIT_MARK == <<"R","e","q","u","e","s","t"," ","R","a","t","e"," ","T","h","r","e","s","h","o","l","d"," ","E","x","c","e","e","d","e","d">>

(***************************************************************************)
(* SROFiling.                                                              *)
(***************************************************************************)
SROFiling(title, url, date, description, source) ==
  [title |-> title, url |-> url, date |-> date,
   description |-> description, source |-> source]

\* SROFiling.id: the first ID_LENGTH hex digits of the MD5 digest of the url.
\* The digest is kept symbolic: a value determined by the url and the length.
FilingId(f) == [md5_hex_of |-> f.url, first |-> ID_LENGTH]

(***************************************************************************)
(* should_exclude                                                          *)
(***************************************************************************)
RECURSIVE AnyPatternMatches(_, _, _)
\* for pattern in patterns[k:]: if re.search(pattern, s, re.IGNORECASE): return True
AnyPatternMatches(patterns, k, s) ==
  IF k > Len(patterns) THEN FALSE
  ELSE IF re_search(patterns[k], s) THEN TRUE
  ELSE AnyPatternMatches(patterns, k + 1, s)

\* the administrative patterns are searched in title and description
should_exclude_admin_on_text(title, description) ==
  LET text == LowerStr(title \o <<" ">> \o description)
  IN IF AnyPatternMatches(EXCLUDE_TITLE_PATTERNS, 1, text) THEN TRUE
     ELSE AnyPatternMatches(CRYPTO_PATTERNS, 1, text)

should_exclude(title, description) ==
  LET text == LowerStr(title \o <<" ">> \o description)
  IN IF AnyPatternMatches(EXCLUDE_TITLE_PATTERNS, 1, title) THEN TRUE
     ELSE IF AnyPatternMatches(CRYPTO_PATTERNS, 1, text) THEN TRUE
     ELSE FALSE

(***************************************************************************)
(* filter_filings: the loop of lines 234-239, from index k on, returning   *)
(* the list filtered and the counter excluded_count.                       *)
(***************************************************************************)
RECURSIVE FilterLoop(_, _, _, _)
FilterLoop(fs, k, filtered, excluded_count) ==
  IF k > Len(fs) THEN [filtered |-> filtered, excluded_count |-> excluded_count]
  ELSE IF should_exclude(fs[k].title, fs[k].description)
       THEN FilterLoop(fs, k + 1, filtered, excluded_count + 1)
       ELSE FilterLoop(fs, k + 1, Append(filtered, fs[k]), excluded_count)

filter_filings(fs) == FilterLoop(fs, 1, << >>, 0)

(***************************************************************************)
(* deduplicate_filings: the loop of lines 250-253.                         *)
(***************************************************************************)
RECURSIVE DedupLoop(_, _, _, _)
DedupLoop(fs, k, seen_urls, unique) ==
  IF k > Len(fs) THEN unique
  ELSE IF fs[k].url \notin seen_urls
       THEN DedupLoop(fs, k + 1, seen_urls \cup {fs[k].url}, Append(unique, fs[k]))
       ELSE DedupLoop(fs, k + 1, seen_urls, unique)

RECURSIVE DedupWholeRecordLoop(_, _, _, _)
DedupWholeRecordLoop(fs, k, seen, unique) ==
  IF k > Len(fs) THEN unique
  ELSE IF fs[k] \notin seen
       THEN DedupWholeRecordLoop(fs, k + 1, seen \cup {fs[k]}, Append(unique, fs[k]))
       ELSE DedupWholeRecordLoop(fs, k + 1, seen, unique)

\* a record is a duplicate only if all its fields repeat
deduplicate_by_record(fs) == DedupWholeRecordLoop(fs, 1, {}, << >>)

\* no deduplication
deduplicate_nothing(fs) == fs

RECURSIVE DedupKeepLastLoop(_, _)
DedupKeepLastLoop(fs, k) ==
  IF k > Len(fs) THEN << >>
  ELSE (IF \E j \in (k + 1)..Len(fs) : fs[j].url = fs[k].url THEN << >> ELSE <<fs[k]>>)
       \o DedupKeepLastLoop(fs, k + 1)

\* the last occurrence of each url is kept
deduplicate_keep_last(fs) == DedupKeepLastLoop(fs, 1)

deduplicate_filings(fs) == DedupLoop(fs, 1, {}, << >>)

(***************************************************************************)
(* datetime.strptime(date_string, format) for the formats of generate_feed.*)
(* A format is a sequence of atoms: a directive ("%B", "%b", "%d", "%m",   *)
(* "%Y") or a literal character; whitespace in a format matches one or     *)
(* more whitespace characters, and matching ignores case.                  *)
(***************************************************************************)
MONTH_NAMES == <<
  <<"j","a","n","u","a","r","y">>, <<"f","e","b","r","u","a","r","y">>, <<"m","a","r","c","h">>, <<"a","p","r","i","l">>, <<"m","a","y">>, <<"j","u","n","e">>,
  <<"j","u","l","y">>, <<"a","u","g","u","s","t">>, <<"s","e","p","t","e","m","b","e","r">>, <<"o","c","t","o","b","e","r">>, <<"n","o","v","e","m","b","e","r">>, <<"d","e","c","e","m","b","e","r">> >>

MONTH_ABBRS == <<
  <<"j","a","n">>, <<"f","e","b">>, <<"m","a","r">>, <<"a","p","r">>, <<"m","a","y">>, <<"j","u","n">>,
  <<"j","u","l">>, <<"a","u","g">>, <<"s","e","p">>, <<"o","c","t">>, <<"n","o","v">>, <<"d","e","c">> >>

DATE_FORMATS == <<
  <<"%B", " ", "%d", ",", " ", "%Y">>,
  <<"%Y", "-", "%m", "-", "%d">>,
  <<"%m", "/", "%d", "/", "%Y">>,
  <<"%b", " ", "%d", ",", " ", "%Y">> >>

IsDigitAt(s, i) == i >= 1 /\ i <= Len(s) /\ s[i] \in DigitSet

\* the numbers the regular expression of %d can read at position i, each
\* with the position after it: 3[0-1] | [1-2]\d | 0[1-9] | [1-9] | " "[1-9]
NumberReads(s, i, lowest, highest, blank_padded) ==
  LET two == IF IsDigitAt(s, i) /\ IsDigitAt(s, i + 1)
             THEN {[value |-> 10 * DigitValue(s[i]) + DigitValue(s[i + 1]), next |-> i + 2]}
             ELSE {}
      padded == IF blank_padded /\ i <= Len(s) /\ s[i] = " " /\ IsDigitAt(s, i + 1)
                THEN {[value |-> DigitValue(s[i + 1]), next |-> i + 2]}
                ELSE {}
      one == IF IsDigitAt(s, i)
             THEN {[value |-> DigitValue(s[i]), next |-> i + 1]}
             ELSE {}
  IN {r \in two \cup padded \cup one : r.value >= lowest /\ r.value <= highest}

DayReads(s, i) == NumberReads(s, i, 1, 31, TRUE)

\* %m: 1[0-2] | 0[1-9] | [1-9]
MonthReads(s, i) == NumberReads(s, i, 1, 12, FALSE)

\* %B and %b: a month name, in any case
NameReads(names, s, i) ==
  {[value |-> v, next |-> i + Len(names[v])] :
     v \in {v \in 1..Len(names) :
              /\ i + Len(names[v]) - 1 <= Len(s)
              /\ LowerStr(SubSeq(s, i, i + Len(names[v]) - 1)) = names[v]}}

\* %Y: \d\d\d\d
YearReads(s, i) ==
  IF \A m \in i..(i + 3) : IsDigitAt(s, m)
  THEN {[value |-> 1000 * DigitValue(s[i]) + 100 * DigitValue(s[i + 1])
                   + 10 * DigitValue(s[i + 2]) + DigitValue(s[i + 3]),
         next |-> i + 4]}
  ELSE {}

RECURSIVE FormatParses(_, _, _, _, _)
\* the (year, month, day) readings under which atoms k.. of fmt match all of
\* s from position i on (nothing of s may be left over)
FormatParses(fmt, k, s, i, acc) ==
  IF k > Len(fmt) THEN (IF i = Len(s) + 1 THEN {acc} ELSE {})
  ELSE IF fmt[k] = "%Y" THEN
    UNION {FormatParses(fmt, k + 1, s, r.next, [acc EXCEPT !.year = r.value]) :
             r \in YearReads(s, i)}
  ELSE IF fmt[k] = "%m" THEN
    UNION {FormatParses(fmt, k + 1, s, r.next, [acc EXCEPT !.month = r.value]) :
             r \in MonthReads(s, i)}
  ELSE IF fmt[k] = "%d" THEN
    UNION {FormatParses(fmt, k + 1, s, r.next, [acc EXCEPT !.day = r.value]) :
             r \in DayReads(s, i)}
  ELSE IF fmt[k] = "%B" THEN
    UNION {FormatParses(fmt, k + 1, s, r.next, [acc EXCEPT !.month = r.value]) :
             r \in NameReads(MONTH_NAMES, s, i)}
  ELSE IF fmt[k] = "%b" THEN
    UNION {FormatParses(fmt, k + 1, s, r.next, [acc EXCEPT !.month = r.value]) :
             r \in NameReads(MONTH_ABBRS, s, i)}
  ELSE IF fmt[k] = " " THEN
    UNION {FormatParses(fmt, k + 1, s, j, acc) :
             j \in {j \in (i + 1)..(Len(s) + 1) : \A m \in i..(j - 1) : IsSpaceChar(s[m])}}
  ELSE IF i <= Len(s) /\ LowerChar(s[i]) = LowerChar(fmt[k])
       THEN FormatParses(fmt, k + 1, s, i + 1, acc)
       ELSE {}

IsLeap(y) == y % 4 = 0 /\ (y % 100 # 0 \/ y % 400 = 0)

DaysInMonth(y, m) ==
  IF m = 2 THEN (IF IsLeap(y) THEN 29 ELSE 28)
  ELSE IF m \in {4, 6, 9, 11} THEN 30 ELSE 31

\* the dates strptime returns for s under fmt; empty: ValueError
strptime(s, fmt) ==
  {p \in FormatParses(fmt, 1, s, 1, [year |-> 1900, month |-> 1, day |-> 1]) :
     p.year >= 1 /\ p.day <= DaysInMonth(p.year, p.month)}

NoTimestamp == [is_set |-> FALSE]

\* dt.replace(tzinfo=timezone.utc), as the value of a feed timestamp
UtcTimestamp(dt) ==
  [is_set |-> TRUE, year |-> dt.year, month |-> dt.month, day |-> dt.day,
   tzinfo |-> "UTC"]

RECURSIVE TryFormats(_, _)
\* the loop of lines 290-297 from format k on: the timestamp set by the
\* first format that parses, NoTimestamp when none does
TryFormats(date, k) ==
  IF k > Len(DATE_FORMATS) THEN NoTimestamp
  ELSE IF strptime(date, DATE_FORMATS[k]) # {}
       THEN UtcTimestamp(CHOOSE p \in strptime(date, DATE_FORMATS[k]) : TRUE)
       ELSE TryFormats(date, k + 1)

(***************************************************************************)
(* generate_feed: the entry of one filing (lines 270-299).                 *)
(***************************************************************************)
\* str.title(): a cased character is upper-cased unless a cased character
\* precedes it
IsCased(c) == c \in UpperSet \cup LowerSet

TitleCase(s) ==
  [i \in 1..Len(s) |->
     IF i > 1 /\ IsCased(s[i - 1]) THEN LowerChar(s[i]) ELSE UpperChar(s[i])]

RECURSIVE Join(_, _)
\* sep.join(parts)
Join(sep, parts) ==
  IF parts = << >> THEN << >>
  ELSE IF Len(parts) = 1 THEN parts[1]
  ELSE parts[1] \o sep \o Join(sep, Tail(parts))

EntryDescription(f) ==
  LET desc_parts ==
        (IF f.source # << >>
           THEN << <<"S","o","u","r","c","e",":"," ">> \o TitleCase(Replace(f.source, <<"-">>, <<" ">>)) >>
           ELSE << >>)
        \o (IF f.date # << >> THEN << <<"D","a","t","e",":"," ">> \o f.date >> ELSE << >>)
        \o (IF f.description # << >> THEN << f.description >> ELSE << >>)
  IN IF desc_parts # << >> THEN Join(<<"\n">>, desc_parts) ELSE f.title

\* "fall back to now"
EntryTimestampOrNow(f, now) ==
  IF f.date # << >> /\ TryFormats(f.date, 1) # NoTimestamp THEN TryFormats(f.date, 1) ELSE now

EntryTimestamp(f, now) ==
  IF f.date # << >> THEN TryFormats(f.date, 1) ELSE NoTimestamp

FeedEntry(f, now) ==
  LET ts == EntryTimestamp(f, now)
  IN [id |-> f.url, title |-> f.title, link |-> f.url,
      description |-> EntryDescription(f),
      published |-> ts, updated |-> ts]

\* the FeedGenerator after the loop of line 269
FeedOf(fs, now) ==
  [updated |-> now, entries |-> [i \in 1..Len(fs) |-> FeedEntry(fs[i], now)]]

\* the snapshot of lines 309-326
SnapshotOf(fs, now) ==
  LET filings_data ==
        [i \in 1..Len(fs) |->
           [id |-> FilingId(fs[i]), title |-> fs[i].title, url |-> fs[i].url,
            date |-> fs[i].date, description |-> fs[i].description,
            source |-> fs[i].source]]
  IN [updated |-> now, count |-> Len(filings_data), filings |-> filings_data]

(***************************************************************************)
(* parse_sro_page.  A response body is its text outside the table and the  *)
(* rows of "table tbody tr"; a row is its number of td cells, the link of  *)
(* cell 0 (if any), the texts of cells 1-3 and the children of cell 4.     *)
(***************************************************************************)
RECURSIVE DetailsText(_, _)
\* the loop of lines 157-164 over children k.. of the details cell: the
\* text nodes before the first strong element, concatenated
DetailsText(children, k) ==
  IF k > Len(children) THEN << >>
  ELSE IF children[k].name = "strong" THEN << >>
  ELSE IF children[k].name # "" THEN DetailsText(children, k + 1)
  ELSE children[k].text \o DetailsText(children, k + 1)

\* lines 135-181: the filing of a row that has its cells and its link
RowFiling(row, source) ==
  LET release_number == Strip(Replace(Strip(row.link_text), <<"E","x","t","e","r","n","a","l",".">>, << >>))
      pdf_href == IF StartsWith(row.href, <<"h","t","t","p">>) THEN row.href
                  ELSE SEC_BASE_URL \o row.href
      date_str == Strip(row.date)
      file_number == Strip(row.file_number)
      sro_org == Strip(row.sro_org)
      details_text == Strip(DetailsText(row.details, 1))
      title == <<"[">> \o release_number \o <<"]"," ">> \o Prefix(details_text, TITLE_EXCERPT)
               \o (IF Len(details_text) > TITLE_EXCERPT THEN <<".",".",".">> ELSE << >>)
      full_description == sro_org \o <<" ","|"," ">> \o file_number \o <<" ","|"," ">> \o details_text
  IN SROFiling(title, pdf_href, date_str, full_description, source)

RECURSIVE ParseRows(_, _, _)
\* the loop of line 124 from row k on
ParseRows(rows, k, source) ==
  IF k > Len(rows) THEN << >>
  ELSE IF rows[k].cells < MIN_CELLS THEN ParseRows(rows, k + 1, source)
  ELSE IF ~rows[k].has_link THEN ParseRows(rows, k + 1, source)
  ELSE <<RowFiling(rows[k], source)>> \o ParseRows(rows, k + 1, source)

parse_sro_page(html, source) == ParseRows(html.rows, 1, source)

(***************************************************************************)
(* The upstream site: what a GET of page n of source k may answer.         *)
(***************************************************************************)
DETAILS == <<
  <<"N","o","t","i","c","e"," ","o","f"," ","F","i","l","i","n","g"," ","a","n","d"," ","I","m","m","e","d","i","a","t","e"," ","E","f","f","e","c","t","i","v","e","n","e","s","s"," ","o","f"," ","a"," ","f","e","e">>,
  <<"R","u","l","e"," ","c","h","a","n","g","e"," ","o","n"," ","f","e","e","s">>,
  <<"N","e","w"," ","t","o","k","e","n"," ","l","i","s","t","i","n","g">> >>

DATES == << <<"P","e","n","d","i","n","g">>, <<"D","e","c"," ","1","8",","," ","2","0","2","5">> >>

ORGS == << <<"N","Y","S","E">>, <<"F","I","N","R","A">> >>

\* data row i of page n of source k; the listing moves by one row from a page
\* to the next, so that neighbouring pages may repeat a row
SiteRow(k, n, i) ==
  LET number == n + i
  IN [cells |-> 5, has_link |-> TRUE,
      link_text |-> <<"E","x","t","e","r","n","a","l",".","3","4","-">> \o IntToStr(number),
      href |-> IF k = 1 THEN <<"/","f","i","l","e","s","/","n">> \o IntToStr(number) \o <<".","p","d","f">>
               ELSE SEC_BASE_URL \o <<"/","f","i","l","e","s","/","f">> \o IntToStr(number) \o <<".","p","d","f">>,
      date |-> DATES[((number + k) % Len(DATES)) + 1],
      file_number |-> <<"S","R","-">> \o IntToStr(number),
      sro_org |-> ORGS[k],
      details |-> << [name |-> "", text |-> <<" ">> \o DETAILS[(number % Len(DETAILS)) + 1] \o <<" ">>],
                     [name |-> "a", text |-> <<"S","u","b","m","i","t"," ","a"," ","C","o","m","m","e","n","t">>],
                     [name |-> "strong", text |-> <<"C","o","m","m","e","n","t","s"," ","D","u","e",":">>],
                     [name |-> "", text |-> <<" ","J","a","n"," ","8",","," ","2","0","2","6">>] >>]

\* rows that parse_sro_page skips: too few cells, no link in cell 0
ShortRow == [cells |-> 1, has_link |-> FALSE, link_text |-> << >>, href |-> << >>,
             date |-> << >>, file_number |-> << >>, sro_org |-> << >>, details |-> << >>]

UnlinkedRow == [cells |-> 5, has_link |-> FALSE, link_text |-> << >>, href |-> << >>,
                date |-> <<"D","e","c"," ","1","8",","," ","2","0","2","5">>, file_number |-> <<"S","R","-","0">>, sro_org |-> <<"N","Y","S","E">>,
                details |-> << [name |-> "", text |-> <<"W","i","t","h","d","r","a","w","n">>] >>]

JunkHeads == { << >>, <<ShortRow>>, <<UnlinkedRow>> }

SiteRows(k, n, c) == [i \in 1..c |-> SiteRow(k, n, i)]

NoneResponse == [kind |-> "None"]
EmptyResponse == [kind |-> "empty"]

PageResponse(text, rows) == [kind |-> "page", text |-> text, rows |-> rows]

Responses(k, n) ==
  {NoneResponse, EmptyResponse, PageResponse(RATE_LIMIT_MARK, << >>)}
  \cup {PageResponse(<<"S","R","O"," ","R","u","l","e","m","a","k","i","n","g">>, head \o SiteRows(k, n, c)) :
          head \in JunkHeads, c \in 0..MaxRows}

\* "not html"
NotHtml(html) == html.kind \in {"None", "empty"}

\* "Request Rate Threshold Exceeded" in html
RateLimited(html) == html.kind = "page" /\ Contains(html.text, RATE_LIMIT_MARK)

\* the url of line 200
PageUrl(base_url, page_num) ==
  IF page_num = 0 THEN base_url ELSE base_url \o <<"?","p","a","g","e","=">> \o IntToStr(page_num)

(***************************************************************************)
(* The raw records the pipeline specification draws its input from.        *)
(***************************************************************************)
Pool == {
  SROFiling(<<"[","3","4","-","1","]"," ","R","u","l","e"," ","c","h","a","n","g","e">>, <<"h","t","t","p","s",":","/","/","w","w","w",".","s","e","c",".","g","o","v","/","f","/","1",".","p","d","f">>,
            <<"D","e","c"," ","1","8",","," ","2","0","2","5">>, <<"N","Y","S","E"," ","|"," ","S","R","-","1"," ","|"," ","R","u","l","e"," ","c","h","a","n","g","e">>, SRO_SOURCES[1]),
  SROFiling(<<"[","3","4","-","1","]"," ","N","O","T","I","C","E"," ","O","F"," ","F","I","L","I","N","G"," ","A","N","D"," ","I","M","M","E","D","I","A","T","E"," ","E","F","F","E","C","T","I","V","E","N","E","S","S">>, <<"h","t","t","p","s",":","/","/","w","w","w",".","s","e","c",".","g","o","v","/","f","/","1",".","p","d","f">>,
            <<"D","e","c","e","m","b","e","r"," ","1","8",","," ","2","0","2","5">>, <<"N","Y","S","E"," ","|"," ","S","R","-","1"," ","|"," ","N","o","t","i","c","e">>, SRO_SOURCES[1]),
  SROFiling(<<"[","3","4","-","2","]"," ","N","e","w"," ","t","o","k","e","n"," ","l","i","s","t","i","n","g">>, <<"h","t","t","p","s",":","/","/","w","w","w",".","s","e","c",".","g","o","v","/","f","/","2",".","p","d","f">>,
            <<"2","0","2","5","-","1","2","-","1","8">>, <<"F","I","N","R","A"," ","|"," ","S","R","-","2"," ","|"," ","N","e","w"," ","t","o","k","e","n"," ","l","i","s","t","i","n","g">>, SRO_SOURCES[2]),
  SROFiling(<<"[","3","4","-","3","]"," ","t","o","k","e","n","i","z","e","r"," ","r","u","l","e","s">>, <<"h","t","t","p","s",":","/","/","w","w","w",".","s","e","c",".","g","o","v","/","f","/","2",".","p","d","f">>,
            <<"1","2","/","1","8","/","2","0","2","5">>, <<"F","i","l","i","n","g"," ","a","n","d"," ","I","m","m","e","d","i","a","t","e"," ","E","f","f","e","c","t","i","v","e","n","e","s","s">>, SRO_SOURCES[2]),
  SROFiling(<<"[","3","4","-","4","]"," ","f","e","e"," ","o","n"," ","d","i","g","i","t","a","l">>, <<"h","t","t","p","s",":","/","/","w","w","w",".","s","e","c",".","g","o","v","/","f","/","3",".","p","d","f">>,
            <<"i","n","v","a","l","i","d">>, <<"a","s","s","e","t","s">>, SRO_SOURCES[1]),
  SROFiling(<<"[","3","4","-","5","]"," ","F","e","e"," ","s","c","h","e","d","u","l","e">>, <<"h","t","t","p","s",":","/","/","w","w","w",".","s","e","c",".","g","o","v","/","f","/","3",".","p","d","f">>,
            << >>, << >>, SRO_SOURCES[2]),
  SROFiling(<<"[","3","4","-","6","]"," ","M","a","r","g","i","n"," ","r","u","l","e">>, <<"h","t","t","p","s",":","/","/","w","w","w",".","s","e","c",".","g","o","v","/","f","/","4",".","p","d","f">>,
            <<"F","e","b"," ","3","0",","," ","2","0","2","5">>, <<"F","I","N","R","A"," ","|"," ","S","R","-","6"," ","|"," ","M","a","r","g","i","n"," ","r","u","l","e">>, SRO_SOURCES[2]) }

\* the lists of at most n elements of S
RECURSIVE SeqsUpTo(_, _)
SeqsUpTo(S, n) ==
  IF n = 0 THEN { << >> }
  ELSE LET shorter == SeqsUpTo(S, n - 1)
       IN shorter \cup {Append(q, x) : q \in {r \in shorter : Len(r) = n - 1}, x \in S}

\* the readings of the wall clock
Clock == { [is_set |-> TRUE, year |-> 2025, month |-> 12, day |-> 18, tzinfo |-> "UTC"],
           [is_set |-> TRUE, year |-> 2026, month |-> 1, day |-> 8, tzinfo |-> "UTC"] }

NotEarlier(a, b) ==
  \/ a.year > b.year
  \/ a.year = b.year /\ a.month > b.month
  \/ a.year = b.year /\ a.month = b.month /\ a.day >= b.day

(***************************************************************************)
(* The state of a run of main.                                             *)
(***************************************************************************)
VARIABLES
  pc,              \* the place of the run in main and scrape_all_pages
  source_idx,      \* scrape_all_pages: the position of the outer loop in SRO_PAGES
  page_num,        \* scrape_all_pages: page_num of the inner loop
  html,            \* scrape_all_pages: html
  all_filings,     \* scrape_all_pages: all_filings, and main's filings at line 344
  unique,          \* main's filings after line 349
  filtered,        \* main's filings after line 354
  excluded_count,  \* filter_filings: excluded_count
  log,             \* the requests sent and the sleeps taken, in order, since the
                   \* latest request of a first page (line 203 with page_num = 0)
  requested,       \* the pages line 203 has requested so far, in order
  reached,         \* whether some request has been answered by the site
  parsed,          \* the pages parsed so far: source, page_num and filings found
  docs             \* the three files of the output directory

vars == <<pc, source_idx, page_num, html, all_filings, unique, filtered,
          excluded_count, log, requested, reached, parsed, docs>>

Stale == [written |-> FALSE]

Written(content) == [written |-> TRUE, content |-> content]

GetEvent(k, n, url, response) ==
  [op |-> "get", source |-> k, page |-> n, url |-> url,
   outcome |-> IF NotHtml(response) THEN "nothing"
               ELSE IF RateLimited(response) THEN "rate-limited" ELSE "page"]

SleepEvent(secs) == [op |-> "sleep", secs |-> secs]

Init ==
  /\ pc = "fetch"
  /\ source_idx = 1
  /\ page_num = 0
  /\ html = NoneResponse
  /\ all_filings = << >>
  /\ unique = << >>
  /\ filtered = << >>
  /\ excluded_count = 0
  /\ log = << >>
  /\ requested = << >>
  /\ reached = FALSE
  /\ parsed = << >>
  /\ docs = [feed_xml |-> Stale, atom_xml |-> Stale, filings_json |-> Stale]

(***************************************************************************)
(* scrape_all_pages                                                        *)
(***************************************************************************)
\* break out of the page loop: the next source, or return all_filings
BreakPages ==
  /\ html' = NoneResponse
  /\ IF source_idx < Len(SRO_PAGES)
     THEN /\ source_idx' = source_idx + 1
          /\ page_num' = 0
          /\ pc' = "fetch"
     ELSE /\ pc' = "return"
          /\ UNCHANGED <<source_idx, page_num>>

\* the page loop goes on after line 224
ContinuePages ==
  IF page_num + 1 < max_pages
  THEN /\ page_num' = page_num + 1
       /\ pc' = "fetch"
       /\ html' = NoneResponse
       /\ UNCHANGED source_idx
  ELSE BreakPages

\* fetch_page(url, session): the answer of the site, None on a RequestException
fetch_page(response, earlier, next_pc) ==
  /\ html' = response
  /\ log' = Append(earlier, GetEvent(source_idx, page_num,
                                     PageUrl(SRO_PAGES[source_idx].base_url, page_num),
                                     response))
  /\ reached' = (reached \/ response.kind # "None")
  /\ pc' = next_pc

\* line 203
FetchPage ==
  /\ pc = "fetch"
  /\ \E response \in Responses(source_idx, page_num) :
       fetch_page(response, IF page_num = 0 THEN << >> ELSE log, "check")
  /\ requested' = Append(requested, [source |-> source_idx, page |-> page_num])
  /\ UNCHANGED <<source_idx, page_num, all_filings, unique, filtered,
                 excluded_count, parsed, docs>>

\* the failure of a fetch ends the run
FetchFailedRaises ==
  /\ pc = "check"
  /\ NotHtml(html)
  /\ pc' = "crashed"
  /\ UNCHANGED <<source_idx, page_num, html, all_filings, unique, filtered,
                 excluded_count, log, requested, reached, parsed, docs>>

\* the failure of a fetch returns an empty list at once
FetchFailedReturnsNothing ==
  /\ pc = "check"
  /\ NotHtml(html)
  /\ all_filings' = << >>
  /\ pc' = "return"
  /\ UNCHANGED <<source_idx, page_num, html, unique, filtered,
                 excluded_count, log, requested, reached, parsed, docs>>

\* lines 204-205
FetchFailed ==
  /\ pc = "check"
  /\ NotHtml(html)
  /\ BreakPages
  /\ UNCHANGED <<all_filings, unique, filtered, excluded_count, log, requested, parsed, docs, reached>>

\* lines 208-210
RateLimitWait ==
  /\ pc = "check"
  /\ ~NotHtml(html)
  /\ RateLimited(html)
  /\ log' = Append(log, SleepEvent(RATE_LIMIT_COOLDOWN))
  /\ pc' = "retry"
  /\ UNCHANGED <<source_idx, page_num, html, all_filings, unique, filtered,
                 excluded_count, requested, parsed, docs, reached>>

\* line 211
RetryFetch ==
  /\ pc = "retry"
  /\ \E response \in Responses(source_idx, page_num) : fetch_page(response, log, "recheck")
  /\ UNCHANGED <<source_idx, page_num, all_filings, unique, filtered,
                 excluded_count, requested, parsed, docs>>

\* a retry that is rate-limited is retried again
StillRateLimitedRetries ==
  /\ pc = "recheck"
  /\ NotHtml(html) \/ RateLimited(html)
  /\ log' = Append(log, SleepEvent(RATE_LIMIT_COOLDOWN))
  /\ pc' = "retry"
  /\ UNCHANGED <<source_idx, page_num, html, all_filings, unique, filtered,
                 excluded_count, requested, reached, parsed, docs>>

\* lines 212-214
StillRateLimited ==
  /\ pc = "recheck"
  /\ NotHtml(html) \/ RateLimited(html)
  /\ BreakPages
  /\ UNCHANGED <<all_filings, unique, filtered, excluded_count, log, requested, parsed, docs, reached>>

\* the run is at line 216 with a page to parse
AtParse ==
  /\ pc \in {"check", "recheck"}
  /\ ~NotHtml(html)
  /\ ~RateLimited(html)

\* a page without filings is skipped and the next page requested
NoFilingsFoundContinues ==
  /\ AtParse
  /\ parse_sro_page(html, SRO_PAGES[source_idx].source) = << >>
  /\ parsed' = Append(parsed, [source |-> source_idx, page |-> page_num, filings |-> << >>])
  /\ ContinuePages
  /\ UNCHANGED <<all_filings, unique, filtered, excluded_count, log, requested, docs, reached>>

\* lines 216-219
NoFilingsFound ==
  /\ AtParse
  /\ parse_sro_page(html, SRO_PAGES[source_idx].source) = << >>
  /\ parsed' = Append(parsed, [source |-> source_idx, page |-> page_num, filings |-> << >>])
  /\ BreakPages
  /\ UNCHANGED <<all_filings, unique, filtered, excluded_count, log, requested, docs, reached>>

\* lines 216-222
FilingsFound ==
  /\ AtParse
  /\ LET filings == parse_sro_page(html, SRO_PAGES[source_idx].source)
     IN /\ filings # << >>
        /\ all_filings' = all_filings \o filings
        /\ parsed' = Append(parsed, [source |-> source_idx, page |-> page_num,
                                     filings |-> filings])
  /\ pc' = "delay"
  /\ UNCHANGED <<source_idx, page_num, html, unique, filtered, excluded_count, log, requested, docs, reached>>

\* line 224 and the step of the page loop
RequestDelay ==
  /\ pc = "delay"
  /\ log' = Append(log, SleepEvent(REQUEST_DELAY))
  /\ ContinuePages
  /\ UNCHANGED <<all_filings, unique, filtered, excluded_count, requested, parsed, docs, reached>>

\* line 226, back in main at line 344
ReturnFilings ==
  /\ pc = "return"
  /\ pc' = "dedup"
  /\ UNCHANGED <<source_idx, page_num, html, all_filings, unique, filtered,
                 excluded_count, log, requested, parsed, docs, reached>>

(***************************************************************************)
(* main, lines 347-358                                                     *)
(***************************************************************************)
Deduplicate ==
  /\ pc = "dedup"
  /\ unique' = deduplicate_filings(all_filings)
  /\ pc' = "filter"
  /\ UNCHANGED <<source_idx, page_num, html, all_filings, filtered,
                 excluded_count, log, requested, parsed, docs, reached>>

FilterFilings ==
  /\ pc = "filter"
  /\ LET r == filter_filings(unique)
     IN /\ filtered' = r.filtered
        /\ excluded_count' = r.excluded_count
  /\ pc' = "feed"
  /\ UNCHANGED <<source_idx, page_num, html, all_filings, unique, log, requested, parsed, docs, reached>>

WRITE_STEPS == <<"mkdir", "feed.xml", "atom.xml", "filings.json">>

\* generate_feed, all its writes succeeding
GenerateFeed ==
  /\ pc = "feed"
  /\ \E now \in Clock, later \in Clock :
       /\ NotEarlier(later, now)
       /\ docs' = [feed_xml |-> Written(FeedOf(filtered, now)),
                   atom_xml |-> Written(FeedOf(filtered, now)),
                   filings_json |-> Written(SnapshotOf(filtered, later))]
  /\ pc' = "done"
  /\ UNCHANGED <<source_idx, page_num, html, all_filings, unique, filtered,
                 excluded_count, log, requested, parsed, reached>>

\* generate_feed, write step number failing raising OSError: the files of
\* the steps before it are written, the exception ends the run
GenerateFeedFails ==
  /\ pc = "feed"
  /\ \E now \in Clock, failing \in 1..Len(WRITE_STEPS) :
       docs' = [feed_xml |-> IF failing > 2 THEN Written(FeedOf(filtered, now)) ELSE docs.feed_xml,
                atom_xml |-> IF failing > 3 THEN Written(FeedOf(filtered, now)) ELSE docs.atom_xml,
                filings_json |-> docs.filings_json]
  /\ pc' = "crashed"
  /\ UNCHANGED <<source_idx, page_num, html, all_filings, unique, filtered,
                 excluded_count, log, requested, parsed, reached>>

Next ==
  \/ FetchPage
  \/ FetchFailed
  \/ RateLimitWait
  \/ RetryFetch
  \/ StillRateLimited
  \/ NoFilingsFound
  \/ FilingsFound
  \/ RequestDelay
  \/ ReturnFilings
  \/ Deduplicate
  \/ FilterFilings
  \/ GenerateFeed
  \/ GenerateFeedFails

Spec == Init /\ [][Next]_vars

(***************************************************************************)
(* Vocabulary of the properties.                                           *)
(***************************************************************************)
RECURSIVE PickFrom(_, _, _)
\* the elements of fs whose index is in I, in the order of fs, from index k on
PickFrom(fs, I, k) ==
  IF k > Len(fs) THEN << >>
  ELSE (IF k \in I THEN <<fs[k]>> ELSE << >>) \o PickFrom(fs, I, k + 1)

Pick(fs, I) == PickFrom(fs, I, 1)

\* the indexes of fs that no earlier index shares its url with
FirstOccurrences(fs) ==
  {i \in 1..Len(fs) : \A j \in 1..(i - 1) : fs[j].url # fs[i].url}

RECURSIVE Flatten(_)
Flatten(pages) ==
  IF pages = << >> THEN << >> ELSE pages[1].filings \o Flatten(Tail(pages))

\* an administrative-notice pattern matches the title
AdminMatch(title) ==
  \E k \in 1..Len(EXCLUDE_TITLE_PATTERNS) : re_search(EXCLUDE_TITLE_PATTERNS[k], title)

\* a topic pattern matches the title and the description joined by a blank
TopicMatch(title, description) ==
  \E k \in 1..Len(CRYPTO_PATTERNS) :
    re_search(CRYPTO_PATTERNS[k], title \o <<" ">> \o description)

\* the scenario of ten raw records: two share a url, three match a pattern
ExampleRecord(n, title) ==
  SROFiling(title, <<"h","t","t","p","s",":","/","/","w","w","w",".","s","e","c",".","g","o","v","/","f","/","e">> \o IntToStr(n) \o <<".","p","d","f">>,
            <<"D","e","c"," ","1","8",","," ","2","0","2","5">>, <<"N","Y","S","E"," ","|"," ","S","R","-">> \o IntToStr(n), SRO_SOURCES[1])

\* the two records sharing a url match no pattern
ExampleTen == <<
  ExampleRecord(1, <<"[","3","4","-","1","]"," ","R","u","l","e"," ","c","h","a","n","g","e">>),
  ExampleRecord(2, <<"[","3","4","-","2","]"," ","F","e","e"," ","s","c","h","e","d","u","l","e">>),
  ExampleRecord(2, <<"[","3","4","-","2","]"," ","F","e","e"," ","s","c","h","e","d","u","l","e",","," ","a","m","e","n","d","e","d">>),
  ExampleRecord(3, <<"[","3","4","-","3","]"," ","N","e","w"," ","t","o","k","e","n"," ","l","i","s","t","i","n","g">>),
  ExampleRecord(4, <<"[","3","4","-","4","]"," ","B","i","t","c","o","i","n"," ","t","r","u","s","t"," ","s","h","a","r","e","s">>),
  ExampleRecord(5, <<"[","3","4","-","5","]"," ","N","o","t","i","c","e"," ","o","f"," ","F","i","l","i","n","g"," ","a","n","d"," ","I","m","m","e","d","i","a","t","e"," ","E","f","f","e","c","t","i","v","e","n","e","s","s">>),
  ExampleRecord(6, <<"[","3","4","-","6","]"," ","M","a","r","g","i","n"," ","r","u","l","e">>),
  ExampleRecord(7, <<"[","3","4","-","7","]"," ","O","p","t","i","o","n","s"," ","r","u","l","e">>),
  ExampleRecord(8, <<"[","3","4","-","8","]"," ","L","i","s","t","i","n","g"," ","r","u","l","e">>),
  ExampleRecord(9, <<"[","3","4","-","9","]"," ","C","l","e","a","r","i","n","g"," ","r","u","l","e">>) >>

\* the two records sharing a url are two of the three that match a pattern
ExampleTenOverlap == <<
  ExampleRecord(1, <<"[","3","4","-","1","]"," ","R","u","l","e"," ","c","h","a","n","g","e">>),
  ExampleRecord(3, <<"[","3","4","-","3","]"," ","N","e","w"," ","t","o","k","e","n"," ","l","i","s","t","i","n","g">>),
  ExampleRecord(3, <<"[","3","4","-","3","]"," ","N","e","w"," ","t","o","k","e","n"," ","l","i","s","t","i","n","g">>),
  ExampleRecord(4, <<"[","3","4","-","4","]"," ","B","i","t","c","o","i","n"," ","t","r","u","s","t"," ","s","h","a","r","e","s">>),
  ExampleRecord(2, <<"[","3","4","-","2","]"," ","F","e","e"," ","s","c","h","e","d","u","l","e">>),
  ExampleRecord(6, <<"[","3","4","-","6","]"," ","M","a","r","g","i","n"," ","r","u","l","e">>),
  ExampleRecord(7, <<"[","3","4","-","7","]"," ","O","p","t","i","o","n","s"," ","r","u","l","e">>),
  ExampleRecord(8, <<"[","3","4","-","8","]"," ","L","i","s","t","i","n","g"," ","r","u","l","e">>),
  ExampleRecord(9, <<"[","3","4","-","9","]"," ","C","l","e","a","r","i","n","g"," ","r","u","l","e">>),
  ExampleRecord(10, <<"[","3","4","-","1","0","]"," ","R","e","p","o","r","t","i","n","g"," ","r","u","l","e">>) >>

(***************************************************************************)
(* The pipeline of main after the scrape, from any raw list of at most     *)
(* MaxLen records of the pool.                                             *)
(***************************************************************************)
InitPipeline ==
  /\ pc = "dedup"
  /\ source_idx = Len(SRO_PAGES)
  /\ page_num = 0
  /\ html = NoneResponse
  /\ all_filings \in SeqsUpTo(Pool, MaxLen) \cup {ExampleTen, ExampleTenOverlap}
  /\ unique = << >>
  /\ filtered = << >>
  /\ excluded_count = 0
  /\ log = << >>
  /\ requested = << >>
  /\ reached = TRUE
  /\ parsed = << >>
  /\ docs = [feed_xml |-> Stale, atom_xml |-> Stale, filings_json |-> Stale]

NextPipeline ==
  \/ Deduplicate
  \/ FilterFilings
  \/ GenerateFeed
  \/ GenerateFeedFails

SpecPipeline == InitPipeline /\ [][NextPipeline]_vars

RawRecords == Pool \cup Range(ExampleTen) \cup Range(ExampleTenOverlap)

\* the raw records that match an exclusion pattern
Matching == {f \in RawRecords : AdminMatch(f.title) \/ TopicMatch(f.title, f.description)}

AfterDedup == pc \in {"filter", "feed", "done", "crashed"}
AfterFilter == pc \in {"feed", "done", "crashed"}
AfterScrape == pc \in {"return", "dedup", "filter", "feed", "done", "crashed"}

Urls(fs) == {fs[i].url : i \in 1..Len(fs)}

(***************************************************************************)
(* C1. deduplicate_filings returns the first occurrence of each distinct   *)
(* url, in the original order: a record is dropped if and only if an       *)
(* earlier record of the input has its url, whatever its other fields;     *)
(* the result is no longer than the input and deduplicating it again       *)
(* changes nothing.                                                        *)
(***************************************************************************)
C1_FirstOccurrenceOfEachUrl ==
  AfterDedup =>
    /\ unique = Pick(all_filings, FirstOccurrences(all_filings))
    /\ Len(unique) <= Len(all_filings)
    /\ Cardinality(Urls(unique)) = Len(unique)
    /\ Urls(unique) = Urls(all_filings)
    /\ Pick(unique, FirstOccurrences(unique)) = unique

\* a record is dropped although its other fields differ from those of the
\* earlier record with its url, and a later record with a new url is kept
C1_Witness ==
  /\ pc = "filter"
  /\ Len(all_filings) = 3
  /\ all_filings[1].url = all_filings[2].url
  /\ all_filings[1].title # all_filings[2].title
  /\ all_filings[3].url # all_filings[1].url
  /\ unique = <<all_filings[1], all_filings[3]>>

(***************************************************************************)
(* C5. filter_filings returns, in the original order and unchanged, the    *)
(* filings that should_exclude rejects to exclude; should_exclude holds    *)
(* if and only if an administrative pattern matches the title alone or a   *)
(* topic pattern matches the title and the description joined; retained    *)
(* plus excluded records are the input.                                    *)
(***************************************************************************)
C5_FilterKeepsTheNotExcluded ==
  AfterFilter =>
    /\ filtered = Pick(unique, {i \in 1..Len(unique) : unique[i] \notin Matching})
    /\ Len(filtered) + excluded_count = Len(unique)
    /\ excluded_count = Cardinality({i \in 1..Len(unique) : unique[i] \in Matching})
    /\ pc = "feed" =>
         \A i \in 1..Len(unique) :
           should_exclude(unique[i].title, unique[i].description)
             = (AdminMatch(unique[i].title)
                \/ TopicMatch(unique[i].title, unique[i].description))

\* a record whose description alone carries an administrative phrase is
\* retained, a record whose topic phrase spans title and description is
\* excluded
C5_Witness ==
  /\ pc = "feed"
  /\ Len(unique) = 3
  /\ excluded_count = 2
  /\ \E i \in 1..Len(unique) :
       /\ AdminMatch(unique[i].description)
       /\ ~AdminMatch(unique[i].title)
       /\ filtered = <<unique[i]>>
  /\ \E i \in 1..Len(unique) :
       /\ ~TopicMatch(unique[i].title, << >>)
       /\ ~TopicMatch(unique[i].description, << >>)
       /\ TopicMatch(unique[i].title, unique[i].description)

(***************************************************************************)
(* C6. The count of the snapshot is the length of its filings list and,    *)
(* for N raw records, N minus the records deduplication removed minus the  *)
(* records matching an exclusion pattern.                                  *)
(***************************************************************************)
RemovedByDedup(fs) == Len(fs) - Cardinality(FirstOccurrences(fs))

\* C6, as claimed: the matching records are counted among the N raw records
C6_CountIsRawMinusDuplicatesMinusMatching ==
  pc = "done" =>
    /\ docs.filings_json.content.count = Len(docs.filings_json.content.filings)
    /\ docs.filings_json.content.count =
         Len(all_filings) - RemovedByDedup(all_filings)
         - Cardinality({i \in 1..Len(all_filings) : all_filings[i] \in Matching})

\* C6, as amended: the matching records are counted among the records that
\* deduplication keeps; the scenario of ten gives 6 when the records that
\* share a url match no pattern
C6_CountIsRawMinusDuplicatesMinusMatchingKept ==
  pc = "done" =>
    /\ docs.filings_json.content.count = Len(docs.filings_json.content.filings)
    /\ docs.filings_json.content.count =
         Len(all_filings) - RemovedByDedup(all_filings)
         - Cardinality({i \in FirstOccurrences(all_filings) : all_filings[i] \in Matching})
    /\ all_filings = ExampleTen => docs.filings_json.content.count = 6

C6_Witness ==
  /\ pc = "done"
  /\ all_filings = ExampleTen
  /\ Len(all_filings) = 10
  /\ RemovedByDedup(all_filings) = 1
  /\ Cardinality({i \in 1..Len(all_filings) : all_filings[i] \in Matching}) = 3
  /\ docs.filings_json.content.count = 6

(***************************************************************************)
(* C8. generate_feed sets published and updated of an entry to the date    *)
(* that the first candidate format parsing the date string gives; with no  *)
(* such format, or an empty date, it sets neither (not the current time);  *)
(* every filing has one entry in the feeds and in the snapshot.            *)
(***************************************************************************)
\* the candidate formats that parse the date string
ParsingFormats(date) == {k \in 1..Len(DATE_FORMATS) : strptime(date, DATE_FORMATS[k]) # {}}

FirstOf(S) == CHOOSE k \in S : \A m \in S : k <= m

December18 == [is_set |-> TRUE, year |-> 2025, month |-> 12, day |-> 18, tzinfo |-> "UTC"]

FirstWithUrl(fs, u) == fs[CHOOSE i \in FirstOccurrences(fs) : fs[i].url = u]

C10_FilterOfDedup ==
  AfterFilter =>
    /\ Cardinality(Urls(filtered)) = Len(filtered)
    /\ \A i \in 1..Len(filtered) : filtered[i] \notin Matching
    /\ \A u \in Urls(all_filings) :
         /\ u \in Urls(filtered) <=> FirstWithUrl(all_filings, u) \notin Matching
         /\ \A i \in 1..Len(filtered) :
              filtered[i].url = u => filtered[i] = FirstWithUrl(all_filings, u)
    /\ filtered = Pick(all_filings,
                       {i \in FirstOccurrences(all_filings) : all_filings[i] \notin Matching})

\* filtering first and deduplicating after would emit the second record
C10_Witness ==
  /\ pc = "feed"
  /\ Len(all_filings) = 2
  /\ all_filings[1].url = all_filings[2].url
  /\ all_filings[1] \in Matching
  /\ all_filings[2] \notin Matching
  /\ filtered = << >>
  /\ Pick(all_filings, {i \in 1..2 : all_filings[i] \notin Matching}) = <<all_filings[2]>>

(***************************************************************************)
(* Vocabulary of the properties of scrape_all_pages.                       *)
(***************************************************************************)
\* the positions of the requests in the log
Gets == {i \in 1..Len(log) : log[i].op = "get"}

PageOf(k, n) == [source |-> k, page |-> n]

Requested(k, n) == \E i \in 1..Len(requested) : requested[i] = PageOf(k, n)

\* page n of source k was parsed and yielded filings
Yielded(k, n) ==
  \E j \in 1..Len(parsed) :
    parsed[j].source = k /\ parsed[j].page = n /\ parsed[j].filings # << >>

\* every source has had its first page requested
EverySourceStarted == \A k \in 1..Len(SRO_PAGES) : Requested(k, 0)

(***************************************************************************)
(* C2. A page is requested a second time only when its first response is   *)
(* rate-limited, and then once, after the cooldown: no url is requested    *)
(* more than twice, a fetch that returns nothing is never retried, and a   *)
(* retry that is rate-limited or fails ends the requests of its source     *)
(* while the run goes on with the next source.                             *)
(***************************************************************************)
C2_OneRetryOnlyWhenRateLimited ==
  /\ \A i \in Gets : Cardinality({j \in Gets : log[j].url = log[i].url}) <= 2
  /\ \A i, j \in Gets :
       /\ log[i].source = log[j].source
       /\ (log[i].url = log[j].url) <=> (log[i].page = log[j].page)
       /\ (i < j /\ log[i].url = log[j].url) =>
            /\ j = i + 2
            /\ log[i].outcome = "rate-limited"
            /\ log[i + 1] = [op |-> "sleep", secs |-> 10]
  /\ \A i \in Gets :
       /\ Requested(log[i].source, log[i].page)
       /\ log[i].outcome = "nothing" => i = Len(log)
       /\ (i > 2 /\ log[i - 2].op = "get" /\ log[i - 2].url = log[i].url
             /\ log[i].outcome # "page") => i = Len(log)
  /\ \A i, j \in 1..Len(requested) : i # j => requested[i] # requested[j]
  /\ AfterScrape => EverySourceStarted

\* the first page of the first source is rate-limited twice, and the run is
\* about to request the first page of the next source
C2_Witness ==
  /\ pc = "fetch"
  /\ source_idx = 2
  /\ page_num = 0
  /\ Len(log) = 3
  /\ log[1].op = "get" /\ log[1].source = 1 /\ log[1].outcome = "rate-limited"
  /\ log[2] = SleepEvent(RATE_LIMIT_COOLDOWN)
  /\ log[3].op = "get" /\ log[3].url = log[1].url /\ log[3].outcome = "rate-limited"

(***************************************************************************)
(* C3. After every successful fetch, whatever its outcome, a wait occurs   *)
(* before the next request is sent, for the same source or the next.       *)
(***************************************************************************)
C3_WaitBetweenSuccessfulFetchAndNextRequest ==
  [][(pc \in {"fetch", "retry"} /\ pc' \in {"check", "recheck"} /\ log # << >>)
       => ~(log[Len(log)].op = "get" /\ log[Len(log)].outcome # "nothing")]_vars

(***************************************************************************)
(* C4. When the pages of a source are cut short, the filings of the pages  *)
(* parsed before, of that source and of the sources before it, stay in     *)
(* the returned list in fetch order, and every later source is scraped     *)
(* from its page 0.                                                        *)
(***************************************************************************)
C4_PartialResultsKept ==
  /\ all_filings = Flatten(parsed)
  /\ \A j \in 1..Len(parsed) :
       /\ Requested(parsed[j].source, parsed[j].page)
       /\ \A m \in 1..Len(parsed[j].filings) :
            parsed[j].filings[m].source = SRO_SOURCES[parsed[j].source]
       /\ \A i \in 1..(j - 1) :
            \/ parsed[i].source < parsed[j].source
            \/ parsed[i].source = parsed[j].source /\ parsed[i].page < parsed[j].page
  /\ \A i \in 1..Len(requested) :
       requested[i].page = 0 \/ (i > 1 /\ requested[i - 1].source = requested[i].source)
  /\ AfterScrape => EverySourceStarted

\* the first source is cut at its second page, after a first page with
\* filings; the second source has contributed its own filings after them
C4_Witness ==
  /\ pc = "return"
  /\ Requested(1, 1)
  /\ ~Yielded(1, 1)
  /\ ~Requested(1, 2)
  /\ Yielded(1, 0)
  /\ Yielded(2, 0)
  /\ Len(all_filings) >= 2
  /\ all_filings[1].source = SRO_SOURCES[1]
  /\ all_filings[Len(all_filings)].source = SRO_SOURCES[2]

(***************************************************************************)
(* C7. Only unrecoverable conditions end the run; each recoverable         *)
(* condition is absorbed and the run reaches the emission of the feeds.    *)
(***************************************************************************)
WriteFailed == ~docs.filings_json.written

\* the run is inside scrape_all_pages, where the recoverable conditions arise
Scraping == pc \in {"fetch", "check", "retry", "recheck", "delay"}

Emitted ==
  /\ docs.feed_xml.written /\ docs.atom_xml.written /\ docs.filings_json.written
  /\ Len(docs.feed_xml.content.entries) = Len(filtered)

\* C7, as claimed: a run in which no source can be reached is ended, like a run
\* that cannot write its output; every other run emits the feeds
C7_EndedWhenNoSourceReachedOrNoWrite ==
  /\ pc = "done" => reached /\ Emitted
  /\ pc = "crashed" => ~reached \/ WriteFailed
  /\ Scraping => ENABLED Next

\* C7, as amended: only a failing write ends the run, after the scrape and the
\* pipeline have run in full; a run in which no source is reached emits
\* the (empty) feeds like every other
C7_EndedOnlyWhenNoWrite ==
  /\ pc = "done" => Emitted
  /\ pc = "crashed" => WriteFailed /\ EverySourceStarted
  /\ pc = "feed" =>
       /\ EverySourceStarted
       /\ filtered = Pick(all_filings,
                          {i \in FirstOccurrences(all_filings) :
                             ~(AdminMatch(all_filings[i].title)
                               \/ TopicMatch(all_filings[i].title, all_filings[i].description))})
  /\ Scraping => ENABLED Next

\* no page of the second source could be fetched and the date of a filing
\* of the first did not parse: the feeds are emitted with the filing's entry
C7_Witness ==
  /\ pc = "done"
  /\ Emitted
  /\ Requested(2, 0) /\ ~(\E j \in 1..Len(parsed) : parsed[j].source = 2)
  /\ Len(filtered) = 1
  /\ filtered[1].date = <<"P","e","n","d","i","n","g">>
  /\ docs.feed_xml.content.entries[1].published = NoTimestamp

(***************************************************************************)
(* C9. The pages of a source are requested in increasing order from page   *)
(* 0 (the bare url; page n > 0 with the page parameter n), max_pages of    *)
(* them at most, up to the first page that yields no filing or whose fetch *)
(* fails: page n > 0 is requested only if every page below it yielded a    *)
(* filing.                                                                 *)
(***************************************************************************)
C9_PagesInOrderUntilFirstStop ==
  /\ requested # << >> => requested[1] = PageOf(1, 0)
  /\ \A i \in 1..Len(requested) :
       /\ requested[i].page \in 0..(max_pages - 1)
       /\ Cardinality({j \in 1..Len(requested) :
                         requested[j].source = requested[i].source}) <= max_pages
       /\ \A m \in 0..(requested[i].page - 1) : Yielded(requested[i].source, m)
       /\ i > 1 =>
            \/ /\ requested[i].source = requested[i - 1].source
               /\ requested[i].page = requested[i - 1].page + 1
            \/ /\ requested[i].source = requested[i - 1].source + 1
               /\ requested[i].page = 0
  /\ \A j \in 1..Len(parsed) :
       parsed[j].filings = << >> =>
         ~\E i \in 1..Len(requested) :
            /\ requested[i].source = parsed[j].source
            /\ requested[i].page > parsed[j].page
  /\ \A i \in Gets :
       /\ log[i].page = 0 => log[i].url = SRO_PAGES[log[i].source].base_url
       /\ log[i].page > 0 =>
            log[i].url = SRO_PAGES[log[i].source].base_url
                         \o <<"?","p","a","g","e","=">> \o <<DIGITS[log[i].page + 1]>>
       /\ \A j \in Gets : i < j => log[i].page <= log[j].page

\* the first source is requested to its last page, the second stops at a
\* first page without filings
C9_Witness ==
  /\ pc = "return"
  /\ requested = <<PageOf(1, 0), PageOf(1, 1), PageOf(1, 2), PageOf(2, 0)>>
  /\ Yielded(1, 2)
  /\ parsed[Len(parsed)] = [source |-> 2, page |-> 0, filings |-> << >>]
  /\ log[1].url = SRO_PAGES[2].base_url

=============================================================================
